---- MODULE Spec2Model ----
(***************************************************************************)
(* A model of the three cell parsers of the job-listing cleaning layer     *)
(* (salary_parser_int.py, location_cleaner.py, title_cleaner.py) and of    *)
(* the batch drivers that apply them to the rows of a table.               *)
(*                                                                         *)
(* Text is modelled as a sequence of characters, each character a          *)
(* one-character string; the characters outside ASCII carry a name:        *)
(* "EURO", "NBSP" (U+00A0), "ENDASH" (U+2013), "EMDASH" (U+2014).          *)
(*                                                                         *)
(* A float is modelled as an exact decimal [m, e] standing for m / 10^e    *)
(* (e >= 0, normalised so that e = 0 or m is no multiple of 10); NaN is    *)
(* the record with e = -1.                                                 *)
(***************************************************************************)
EXTENDS Integers, Sequences, FiniteSets, TLC

VARIABLES
    sal_pc,      \* parse_salary_field: "start" | "done"
    sal_cell,    \* parse_salary_field: the argument
    sal_res,     \* parse_salary_field: the returned (min, max, mean)
    df,             \* the table a batch driver works on: column name -> cells
    pc,             \* the batch driver's position
    run,            \* 1 in the first call of the driver, 2 in the second
    first_df,       \* the table the first call returned
    parsed_min,     \* clean_salary_columns_int: parsed_min
    parsed_max,     \* clean_salary_columns_int: parsed_max
    parsed_mean,    \* clean_salary_columns_int: parsed_mean
    overwrite,      \* clean_salary_columns_int: overwrite
    fill_strategy,  \* clean_salary_columns_int: fill_strategy
    enforce_int,    \* clean_salary_columns_int: enforce_int
    round_method,   \* clean_salary_columns_int: round_method
    loc_pc,      \* parse_location: "start" | "done"
    loc_cell,    \* parse_location: the argument
    loc_out,     \* parse_location: the returned record, or the exception raised
    loc_df,        \* enrich_locations: df, column name -> cells
    enrich_pc,     \* enrich_locations: the position in the function
    loc_parsed,    \* enrich_locations: parsed, one record per row
    fill_unknown,  \* enrich_locations: fill_unknown
    title_pc,            \* classify_title: "start" | "done"
    title_cell,          \* classify_title: title
    coerce_other_to_sw,  \* classify_title: coerce_other_to_sw
    title_label,         \* classify_title: the returned label
    titles_df,         \* clean_job_titles: df, column name -> cells
    titles_pc,         \* clean_job_titles: the position in the function
    keep_top_n_other,  \* clean_job_titles: keep_top_n_other, 0 for None
    top_other_set      \* clean_job_titles: top_other_set

salary_vars == <<sal_pc, sal_cell, sal_res>>

parsed_vars == <<parsed_min, parsed_max, parsed_mean>>

param_vars == <<overwrite, fill_strategy, enforce_int, round_method>>

batch_vars == <<df, pc, run, first_df, parsed_vars, param_vars>>

enrich_vars == <<loc_df, enrich_pc, loc_parsed, fill_unknown>>

location_vars == <<loc_pc, loc_cell, loc_out, enrich_vars>>

titles_vars == <<titles_df, titles_pc, keep_top_n_other, top_other_set>>

title_vars == <<title_pc, title_cell, coerce_other_to_sw, title_label, titles_vars>>

vars == <<salary_vars, batch_vars, location_vars, title_vars>>

-----------------------------------------------------------------------------
(* Characters and text *)

DigitChars == {"0", "1", "2", "3", "4", "5", "6", "7", "8", "9"}

UpperSeq == <<"A", "B", "C", "D", "E", "F", "G", "H", "I", "J", "K", "L", "M",
              "N", "O", "P", "Q", "R", "S", "T", "U", "V", "W", "X", "Y", "Z">>

LowerSeq == <<"a", "b", "c", "d", "e", "f", "g", "h", "i", "j", "k", "l", "m",
              "n", "o", "p", "q", "r", "s", "t", "u", "v", "w", "x", "y", "z">>

UpperChars == {UpperSeq[i] : i \in DOMAIN UpperSeq}

LowerChars == {LowerSeq[i] : i \in DOMAIN LowerSeq}

\* str.isspace for the characters of the model
SpaceChars == {" ", "NBSP"}

\* the regex class \w
WordChars == DigitChars \cup UpperChars \cup LowerChars \cup {"_"}

LowerChar(c) ==
    IF c \in UpperChars
    THEN LowerSeq[CHOOSE i \in DOMAIN UpperSeq : UpperSeq[i] = c]
    ELSE c

UpperChar(c) ==
    IF c \in LowerChars
    THEN UpperSeq[CHOOSE i \in DOMAIN LowerSeq : LowerSeq[i] = c]
    ELSE c

\* str.lower
Lower(s) == [i \in DOMAIN s |-> LowerChar(s[i])]

\* str.upper
Upper(s) == [i \in DOMAIN s |-> UpperChar(s[i])]

RECURSIVE LStrip(_)
LStrip(s) ==
    IF s # <<>> /\ Head(s) \in SpaceChars THEN LStrip(Tail(s)) ELSE s

RECURSIVE RStrip(_)
RStrip(s) ==
    IF s # <<>> /\ s[Len(s)] \in SpaceChars
    THEN RStrip(SubSeq(s, 1, Len(s) - 1))
    ELSE s

\* str.strip
Strip(s) == RStrip(LStrip(s))

\* c in s
HasChar(s, c) == \E i \in DOMAIN s : s[i] = c

\* s.replace(c, "")
RemoveChar(s, c) == SelectSeq(s, LAMBDA x : x # c)

\* s.replace(c, d) for single characters
ReplaceChar(s, c, d) == [i \in DOMAIN s |-> IF s[i] = c THEN d ELSE s[i]]

\* s.rfind(c), 1-based; 0 when c is not in s
RFind(s, c) ==
    IF HasChar(s, c)
    THEN CHOOSE i \in DOMAIN s : s[i] = c /\ \A j \in DOMAIN s : s[j] = c => j <= i
    ELSE 0

\* the text s[i..] starts, case-insensitively, with the lower-case word w
StartsWithAt(s, i, w) ==
    /\ i + Len(w) - 1 <= Len(s)
    /\ \A j \in DOMAIN w : LowerChar(s[i + j - 1]) = w[j]

\* the regex \b at the gap before position i of s (1 <= i <= Len(s) + 1)
WordBoundary(s, i) ==
    LET before == i > 1 /\ s[i - 1] \in WordChars
        after == i <= Len(s) /\ s[i] \in WordChars
    IN before # after

-----------------------------------------------------------------------------
(* Floats as exact decimals *)

NaN == [m |-> 0, e |-> -1]

\* pd.isna of a float
IsNaN(d) == d.e < 0

RECURSIVE Pow10(_)
Pow10(n) == IF n <= 0 THEN 1 ELSE 10 * Pow10(n - 1)

RECURSIVE Dec(_, _)
Dec(m, e) ==
    IF m = 0 THEN [m |-> 0, e |-> 0]
    ELSE IF e > 0 /\ m % 10 = 0 THEN Dec(m \div 10, e - 1)
    ELSE [m |-> m, e |-> e]

DecInt(n) == [m |-> n, e |-> 0]

MaxOf(a, b) == IF a >= b THEN a ELSE b

\* the mantissa of d at e decimals (e >= d.e)
Scaled(d, e) == d.m * Pow10(e - d.e)

DecLE(a, b) == LET e == MaxOf(a.e, b.e) IN Scaled(a, e) <= Scaled(b, e)

DecAdd(a, b) == LET e == MaxOf(a.e, b.e) IN Dec(Scaled(a, e) + Scaled(b, e), e)

\* d / 2.0
DecHalf(d) == Dec(d.m * 5, d.e + 1)

\* d * 10^k
DecShift(d, k) == IF k >= d.e THEN Dec(d.m * Pow10(k - d.e), 0) ELSE Dec(d.m, d.e - k)

RECURSIVE DigitsValue(_)
DigitsValue(s) ==
    IF s = <<>> THEN 0
    ELSE 10 * DigitsValue(SubSeq(s, 1, Len(s) - 1))
         + (CHOOSE v \in 0..9 : ToString(v) = s[Len(s)])

AllDigits(s) == \A i \in DOMAIN s : s[i] \in DigitChars

\* float(s) for a text of digits, signs and periods: the value, or NaN where
\* float raises ValueError (no digit, two periods, a sign that is not first)
Float(s) ==
    LET signed == s # <<>> /\ Head(s) \in {"+", "-"}
        body == IF signed THEN Tail(s) ELSE s
        dot == RFind(body, ".")
        ip == IF dot = 0 THEN body ELSE SubSeq(body, 1, dot - 1)
        fp == IF dot = 0 THEN <<>> ELSE SubSeq(body, dot + 1, Len(body))
        v == DigitsValue(ip \o fp)
    IN IF AllDigits(ip) /\ AllDigits(fp) /\ Len(ip) + Len(fp) >= 1
       THEN Dec(IF signed /\ Head(s) = "-" THEN 0 - v ELSE v, Len(fp))
       ELSE NaN

-----------------------------------------------------------------------------
(* salary_parser_int.py: the cells of a table *)

\* A cell of a table column: None, a text, a float (NaN included) or a
\* nullable integer (Int64, pd.NA included).
NoneCell == [k |-> "None", s |-> <<>>, v |-> NaN]

StrCell(s) == [k |-> "str", s |-> s, v |-> NaN]

FloatCell(d) == [k |-> "float", s |-> <<>>, v |-> d]

Int64Cell(d) == [k |-> "Int64", s |-> <<>>, v |-> d]

\* pd.isna(cell)
IsNa(cell) == cell.k = "None" \/ (cell.k \in {"float", "Int64"} /\ IsNaN(cell.v))

RECURSIVE NatStr(_)
NatStr(n) ==
    IF n < 10 THEN <<ToString(n)>> ELSE NatStr(n \div 10) \o <<ToString(n % 10)>>

RECURSIVE ZeroPad(_, _)
ZeroPad(s, n) == IF Len(s) >= n THEN s ELSE ZeroPad(<<"0">> \o s, n)

\* str(cell) of a present cell: the text itself, the digits of an integer,
\* repr of a float in positional notation (1e-4 <= |x| < 1e16)
CellStr(cell) ==
    IF cell.k = "str" THEN cell.s
    ELSE LET d == cell.v
             a == IF d.m < 0 THEN 0 - d.m ELSE d.m
             sign == IF d.m < 0 THEN <<"-">> ELSE <<>>
             p == Pow10(d.e)
         IN IF cell.k = "Int64" THEN sign \o NatStr(a)
            ELSE IF d.e = 0 THEN sign \o NatStr(a) \o <<".", "0">>
            ELSE sign \o NatStr(a \div p) \o <<".">> \o ZeroPad(NatStr(a % p), d.e)

_normalize_whitespace(s) == Strip(ReplaceChar(s, "NBSP", " "))

-----------------------------------------------------------------------------
(* salary_parser_int.py: _parse_single_number *)

Txt_na == <<"n", "a">>
Txt_n_a == <<"n", "/", "a">>
Txt_none == <<"n", "o", "n", "e">>
Txt_per == <<"p", "e", "r">>
Txt_year == <<"y", "e", "a", "r">>
Txt_annum == <<"a", "n", "n", "u", "m">>
Txt_slash_yr == <<"/", "y", "r">>
Txt_yr == <<"y", "r">>
Txt_annually == <<"a", "n", "n", "u", "a", "l", "l", "y">>

\* the texts that stand for "no value"
NaTokens == {Txt_na, Txt_n_a, Txt_none, <<"-">>, <<"EMDASH">>, <<"[", "]">>}

RECURSIVE SkipSpaces(_, _)
SkipSpaces(s, i) ==
    IF i <= Len(s) /\ s[i] \in SpaceChars THEN SkipSpaces(s, i + 1) ELSE i

\* the end (exclusive) of a match of \bper\s*<w>\b at i, or 0
PerWordEnd(s, i, w) ==
    IF WordBoundary(s, i) /\ StartsWithAt(s, i, Txt_per)
    THEN LET j == SkipSpaces(s, i + 3)
         IN IF StartsWithAt(s, j, w) /\ WordBoundary(s, j + Len(w))
            THEN j + Len(w) ELSE 0
    ELSE 0

\* the end (exclusive) of a match at i of
\* (?i)\bper\s*year\b|\bper\s*annum\b|/yr\b|\byr\b|\bannually\b, or 0
VerboseEnd(s, i) ==
    IF PerWordEnd(s, i, Txt_year) > 0 THEN PerWordEnd(s, i, Txt_year)
    ELSE IF PerWordEnd(s, i, Txt_annum) > 0 THEN PerWordEnd(s, i, Txt_annum)
    ELSE IF StartsWithAt(s, i, Txt_slash_yr) /\ WordBoundary(s, i + 3) THEN i + 3
    ELSE IF WordBoundary(s, i) /\ StartsWithAt(s, i, Txt_yr) /\ WordBoundary(s, i + 2)
         THEN i + 2
    ELSE IF WordBoundary(s, i) /\ StartsWithAt(s, i, Txt_annually)
            /\ WordBoundary(s, i + 8)
         THEN i + 8
    ELSE 0

\* re.sub of the verbose words by "", from position i on
RECURSIVE RemoveVerbose(_, _)
RemoveVerbose(s, i) ==
    IF i > Len(s) THEN <<>>
    ELSE IF VerboseEnd(s, i) > 0 THEN RemoveVerbose(s, VerboseEnd(s, i))
    ELSE <<s[i]>> \o RemoveVerbose(s, i + 1)

\* the class [\d\.,kKmM\-\+\(\)]
NumericishChars == DigitChars \cup {".", ",", "k", "K", "m", "M", "-", "+", "(", ")"}

\* re.match(r'^\([\d\.,\skmKM]+\)$', s1)
IsParenNegative(s1) ==
    /\ Len(s1) >= 3
    /\ s1[1] = "(" /\ s1[Len(s1)] = ")"
    /\ \A i \in 2..(Len(s1) - 1) :
           s1[i] \in DigitChars \cup SpaceChars \cup {".", ",", "k", "K", "m", "M"}

RECURSIVE LStripChar(_, _)
LStripChar(s, c) == IF s # <<>> /\ Head(s) = c THEN LStripChar(Tail(s), c) ELSE s

RECURSIVE RStripChar(_, _)
RStripChar(s, c) ==
    IF s # <<>> /\ s[Len(s)] = c THEN RStripChar(SubSeq(s, 1, Len(s) - 1), c) ELSE s

\* re.match(r"^([+-]?[\d\.,]+)\s*([kKmM])$", s)
HasSuffix(s) ==
    LET body == RStrip(SubSeq(s, 1, Len(s) - 1))
        num == IF body # <<>> /\ Head(body) \in {"+", "-"} THEN Tail(body) ELSE body
    IN /\ Len(s) >= 2
       /\ s[Len(s)] \in {"k", "K", "m", "M"}
       /\ num # <<>>
       /\ \A i \in DOMAIN num : num[i] \in DigitChars \cup {".", ","}

\* the end (exclusive) of a match of [+-]?\d+[.,]?\d*[kKmM]? at i, or 0
RECURSIVE SkipDigits(_, _)
SkipDigits(s, i) ==
    IF i <= Len(s) /\ s[i] \in DigitChars THEN SkipDigits(s, i + 1) ELSE i

TokenEnd(s, i) ==
    LET d == IF s[i] \in {"+", "-"} THEN i + 1 ELSE i
        a == SkipDigits(s, d)
        b == IF a <= Len(s) /\ s[a] \in {".", ","} THEN a + 1 ELSE a
        c == SkipDigits(s, b)
    IN IF a = d THEN 0
       ELSE IF c <= Len(s) /\ s[c] \in {"k", "K", "m", "M"} THEN c + 1 ELSE c

\* re.findall(r"[+-]?\d+[.,]?\d*[kKmM]?", s), from position i on
RECURSIVE FindTokens(_, _)
FindTokens(s, i) ==
    IF i > Len(s) THEN <<>>
    ELSE IF TokenEnd(s, i) > 0
         THEN <<SubSeq(s, i, TokenEnd(s, i) - 1)>> \o FindTokens(s, TokenEnd(s, i))
    ELSE FindTokens(s, i + 1)

\* the first value of a list that is not NaN, NaN when there is none
RECURSIVE FirstValid(_)
FirstValid(vals) ==
    IF vals = <<>> THEN NaN
    ELSE IF ~IsNaN(Head(vals)) THEN Head(vals)
    ELSE FirstValid(Tail(vals))

\* float(text) of each text of a list
Floats(texts) == [i \in DOMAIN texts |-> Float(texts[i])]

\* the suffix branch: the number before the suffix, commas and spaces removed
SuffixNumber(s1) ==
    RemoveChar(RemoveChar(RStrip(SubSeq(s1, 1, Len(s1) - 1)), ","), " ")

\* val * 1_000.0 for k, val * 1_000_000.0 for m; NaN where float raised
SuffixValue(s1, val) ==
    IF IsNaN(val) THEN NaN
    ELSE IF LowerChar(s1[Len(s1)]) = "k" THEN DecShift(val, 3)
    ELSE DecShift(val, 6)

\* re.sub(r"[^\d\.\-]", "", s)
DigitsDotsMinus(s) == SelectSeq(s, LAMBDA c : c \in DigitChars \cup {".", "-"})

\* Strategy A: spaces and thousands separators removed, the period the decimal
\* point; the text handed to float, a text float rejects when A does not apply
StrategyA(s1) ==
    LET a == DigitsDotsMinus(RemoveChar(RemoveChar(s1, " "), ","))
    IN IF \E i \in DOMAIN a : a[i] \in DigitChars THEN a ELSE <<>>

\* Strategy B: European style, the comma after the last period
StrategyB(s1) ==
    IF HasChar(s1, ".") /\ HasChar(s1, ",") /\ RFind(s1, ",") > RFind(s1, ".")
    THEN DigitsDotsMinus(ReplaceChar(RemoveChar(s1, "."), ",", "."))
    ELSE <<>>

\* the first token, its decimal comma made a period, its other commas removed
TokenNumber(t) ==
    RemoveChar(IF HasChar(t, ",") /\ ~HasChar(t, ".") THEN ReplaceChar(t, ",", ".") ELSE t,
               ",")

\* Strategy C: the first numeric-looking token
StrategyC(tokens) == IF tokens = <<>> THEN <<>> ELSE TokenNumber(tokens[1])

\* the number of a text s1 of numeric characters: the suffix branch, or the
\* first of the strategies A, B, C whose text float accepts
NumberOf(s1) ==
    IF HasSuffix(s1)
    THEN SuffixValue(s1, FirstValid(Floats(<<SuffixNumber(s1)>>)))
    ELSE FirstValid(Floats(<<StrategyA(s1), StrategyB(s1), StrategyC(FindTokens(s1, 1))>>))

\* "(50000)" -> "-50000"
NegateParentheses(kept) ==
    IF IsParenNegative(kept)
    THEN <<"-">> \o RStripChar(LStripChar(kept, "("), ")")
    ELSE kept

\* the number of a text s0 that _normalize_whitespace returned
NumberOfNormalized(s0) ==
    IF s0 = <<>> \/ Lower(s0) \in NaTokens THEN NaN
    ELSE NumberOf(NegateParentheses(
             SelectSeq(RemoveVerbose(s0, 1), LAMBDA c : c \in NumericishChars)))

_parse_single_number(s) == NumberOfNormalized(_normalize_whitespace(s))

-----------------------------------------------------------------------------
(* salary_parser_int.py: parse_salary_field *)

NaNTriple == [mn |-> NaN, mx |-> NaN, me |-> NaN]

Triple(mn, mx, me) == [mn |-> mn, mx |-> mx, me |-> me]

OpenChars == {"[", "(", "{", "'", "\""}

CloseChars == {"]", ")", "}", "'", "\""}

RECURSIVE DropLeading(_, _)
DropLeading(s, cs) == IF s # <<>> /\ Head(s) \in cs THEN DropLeading(Tail(s), cs) ELSE s

RECURSIVE DropTrailing(_, _)
DropTrailing(s, cs) ==
    IF s # <<>> /\ s[Len(s)] \in cs
    THEN DropTrailing(SubSeq(s, 1, Len(s) - 1), cs)
    ELSE s

\* re.sub(r"^[\[\(\{'\"]+|[\]\)\}'\"]+$", "", s).strip()
StripBrackets(s) == Strip(DropTrailing(DropLeading(s, OpenChars), CloseChars))

DashChars == {"-", "ENDASH", "EMDASH"}

\* the end (exclusive) of a match of \bto\b|[-–—] at i, or 0
RangeSepEnd(s, i) ==
    IF s[i] \in DashChars THEN i + 1
    ELSE IF /\ i + 1 <= Len(s) /\ s[i] = "t" /\ s[i + 1] = "o"
            /\ WordBoundary(s, i) /\ WordBoundary(s, i + 2)
         THEN i + 2
    ELSE 0

\* re.search(r"\bto\b|[-–—]", s)
HasRangeSep(s) == \E i \in DOMAIN s : RangeSepEnd(s, i) > 0

\* re.split(r"\bto\b|[-–—]", s): the parts from position i on, cur the part
\* being read
RECURSIVE SplitRange(_, _, _)
SplitRange(s, i, cur) ==
    IF i > Len(s) THEN <<cur>>
    ELSE IF RangeSepEnd(s, i) > 0
         THEN <<cur>> \o SplitRange(s, RangeSepEnd(s, i), <<>>)
    ELSE SplitRange(s, i + 1, Append(cur, s[i]))

\* [p.strip() for p in parts if p.strip()]
StripParts(parts) ==
    SelectSeq([i \in DOMAIN parts |-> Strip(parts[i])], LAMBDA p : p # <<>>)

\* [_parse_single_number(p) for p in parts]
Numbers(parts) == [i \in DOMAIN parts |-> _parse_single_number(parts[i])]

\* [float(x) for x in nums if pd.notna(x)]
Valid(nums) == SelectSeq(nums, LAMBDA x : ~IsNaN(x))

\* the first listed number instead of the smallest
MinDec_FirstListed(nums) == nums[1]

RECURSIVE MinDec(_)
MinDec(nums) ==
    IF Len(nums) = 1 THEN nums[1]
    ELSE IF DecLE(nums[1], MinDec(Tail(nums))) THEN nums[1]
    ELSE MinDec(Tail(nums))

RECURSIVE MaxDec(_)
MaxDec(nums) ==
    IF Len(nums) = 1 THEN nums[1]
    ELSE IF DecLE(MaxDec(Tail(nums)), nums[1]) THEN nums[1]
    ELSE MaxDec(Tail(nums))

\* the sum of the bounds instead of their midpoint
MeanOf_NoHalf(mn, mx) == Triple(mn, mx, DecAdd(mn, mx))

\* (mn, mx, (mn + mx) / 2.0)
MeanOf(mn, mx) == Triple(mn, mx, DecHalf(DecAdd(mn, mx)))

MinMaxMean(nums) == MeanOf(MinDec(nums), MaxDec(nums))

\* the result of the range branch, nums the valid numbers of the parts
RangeResult(nums) ==
    IF Len(nums) = 0 THEN NaNTriple
    ELSE IF Len(nums) = 1 THEN Triple(nums[1], nums[1], nums[1])
    ELSE MinMaxMean(nums)

\* (val, val, val), or the three NaN
SingleResult(val) == IF IsNaN(val) THEN NaNTriple ELSE Triple(val, val, val)

\* the result otherwise: nums the valid numbers of the numeric tokens
TokenResult(tokens, nums, s_clean) ==
    IF Len(tokens) >= 2 /\ Len(nums) >= 2 THEN MinMaxMean(nums)
    ELSE SingleResult(_parse_single_number(s_clean))

\* the result for the text s_clean the surrounding brackets were removed from
ParseCleaned(s_clean) ==
    IF HasRangeSep(s_clean)
    THEN RangeResult(Valid(Numbers(StripParts(SplitRange(s_clean, 1, <<>>)))))
    ELSE TokenResult(FindTokens(s_clean, 1), Valid(Numbers(FindTokens(s_clean, 1))),
                     s_clean)

\* the result for the text s that _normalize_whitespace returned
ParseNormalized(s) == IF s = <<>> THEN NaNTriple ELSE ParseCleaned(StripBrackets(s))

parse_salary_field(cell) ==
    IF IsNa(cell) THEN NaNTriple
    ELSE ParseNormalized(_normalize_whitespace(CellStr(cell)))

-----------------------------------------------------------------------------
(* The cells parse_salary_field is applied to *)

MaxSalaryAtoms == 4

SalaryAtoms ==
    { <<"(">>, <<")">>, <<"-">>, <<",">>, <<".">>, <<"k">>, <<"4">>, <<"6">>,
      <<" ">>, <<"t", "o">>, <<"$">> }

RECURSIVE Concat(_)
Concat(ss) == IF ss = <<>> THEN <<>> ELSE Head(ss) \o Concat(Tail(ss))

\* every text made of at most n atoms
AtomTexts(atoms, n) == {Concat(ss) : ss \in UNION {[1..k -> atoms] : k \in 0..n}}

\* the cells of the module's self-test and of its docstrings
SalarySamples ==
    { <<"$", "5", "0", ",", "0", "0", "0">>,
      <<"4", "0", "k", "-", "6", "0", "k">>,
      <<"5", "0", "0", "0", "0">>,
      <<"EURO", "5", "0", ".", "0", "0", "0", ",", "0", "0">>,
      <<"N", "A">>,
      <<"(", "6", "0", ",", "0", "0", "0", ")">>,
      <<"5", "0", "0", "0", "0", "/", "y", "e", "a", "r">>,
      <<"[", "'", "4", "0", "0", "0", "0", "'", ",", "'", "5", "0", "0", "0", "0", "'", "]">>,
      <<"1", "0", "0", "k">>,
      <<"4", "0", "k", " ", "t", "o", " ", "6", "0", "k">>,
      <<"4", "0", "k", "ENDASH", "6", "0", "k">>,
      <<"4", "0", "k", " ", "EMDASH", " ", "6", "0", "k">>,
      <<"1", ".", "2", "M">>,
      <<"(", "5", "0", "0", "0", "0", ")">>,
      <<"5", "0", "0", "0", "0", " ", "p", "e", "r", " ", "a", "n", "n", "u", "m">>,
      <<"1", ".", "0", "0", "0", ".", "0", "0", "0", ",", "0", "0">> }

SalaryCells ==
    {NoneCell, FloatCell(NaN)}
        \cup {StrCell(s) : s \in AtomTexts(SalaryAtoms, MaxSalaryAtoms) \cup SalarySamples}

-----------------------------------------------------------------------------
(* parse_salary_field applied to one cell *)

SalaryInit ==
    /\ sal_pc = "start"
    /\ sal_cell \in SalaryCells
    /\ sal_res = NaNTriple

ParseSalaryField ==
    /\ sal_pc = "start"
    /\ sal_res' = parse_salary_field(sal_cell)
    /\ sal_pc' = "done"
    /\ UNCHANGED <<sal_cell, batch_vars, location_vars, title_vars>>


-----------------------------------------------------------------------------
(* Claims about parse_salary_field *)

\* the text parse_salary_field reads from a present cell
SalText == _normalize_whitespace(CellStr(sal_cell))

SalPresent == ~IsNa(sal_cell) /\ SalText # <<>>

\* digits in groups separated by commas, a digit first and last: "60,000"
IsGroupedNumber(s) ==
    /\ s # <<>>
    /\ \A i \in DOMAIN s : s[i] \in DigitChars \cup {","}
    /\ s[1] \in DigitChars /\ s[Len(s)] \in DigitChars
    /\ \A i \in 1..(Len(s) - 1) : ~(s[i] = "," /\ s[i + 1] = ",")

\* the cell is a number wrapped in parentheses: "(60,000)"
IsParenthesized(s) ==
    /\ Len(s) >= 3
    /\ s[1] = "(" /\ s[Len(s)] = ")"
    /\ IsGroupedNumber(SubSeq(s, 2, Len(s) - 1))

Txt_paren_60000 == <<"(", "6", "0", ",", "0", "0", "0", ")">>

\* C2: a number wrapped in parentheses parses to a single negative value,
\* min = max = mean = minus the enclosed number; "(60,000)" gives -60000.
C2_ParenthesizedIsNegative ==
    (sal_pc = "done" /\ SalPresent /\ IsParenthesized(SalText)) =>
        LET n == DigitsValue(RemoveChar(SubSeq(SalText, 2, Len(SalText) - 1), ","))
            v == DecInt(0 - n)
        IN sal_res = Triple(v, v, v)

\* the text without a leading currency sign
Amount(s) == DropLeading(s, {"EURO", "$"})

\* periods as thousands separators and a decimal comma after the last period,
\* digits around each of them: "50.000,00"
IsEuropean(s) ==
    /\ s # <<>>
    /\ \A i \in DOMAIN s : s[i] \in DigitChars \cup {".", ","}
    /\ s[1] \in DigitChars /\ s[Len(s)] \in DigitChars
    /\ \A i \in 1..(Len(s) - 1) : s[i] \in {".", ","} => s[i + 1] \in DigitChars
    /\ HasChar(s, ".")
    /\ Cardinality({i \in DOMAIN s : s[i] = ","}) = 1
    /\ RFind(s, ",") > RFind(s, ".")

\* the value of a European amount: periods dropped, the comma the decimal point
EuropeanValue(s) == Float(ReplaceChar(RemoveChar(s, "."), ",", "."))

\* C3: a European-formatted amount parses to a single value with the decimal
\* comma honoured, min = max = mean; "EURO 50.000,00" gives 50000.0.
C3_EuropeanDecimalComma ==
    (sal_pc = "done" /\ SalPresent /\ IsEuropean(Amount(SalText))) =>
        LET v == EuropeanValue(Amount(SalText)) IN sal_res = Triple(v, v, v)

\* the valid numbers either side of the range separators of the expression
RangeNumbers == Valid(Numbers(StripParts(SplitRange(StripBrackets(SalText), 1, <<>>))))

RangeNumberSet == {RangeNumbers[i] : i \in DOMAIN RangeNumbers}

Txt_40k_60k == <<"4", "0", "k", "-", "6", "0", "k">>

\* C4: an expression with a range separator ('to', hyphen, en dash, em dash) is
\* split on it and each side parsed as a single number: two or more valid
\* numbers give min = the smallest, max = the largest, mean = (min + max) / 2
\* ("40k-60k": 40000, 60000, 50000); exactly one gives all three equal to it;
\* none gives all three undefined.
C4_RangeMinMaxMean ==
    /\ (sal_pc = "done" /\ SalPresent /\ HasRangeSep(StripBrackets(SalText))) =>
          /\ Len(RangeNumbers) = 0 => sal_res = NaNTriple
          /\ Len(RangeNumbers) = 1 =>
                 sal_res = Triple(RangeNumbers[1], RangeNumbers[1], RangeNumbers[1])
          /\ Len(RangeNumbers) >= 2 =>
                 /\ sal_res.mn \in RangeNumberSet
                 /\ sal_res.mx \in RangeNumberSet
                 /\ \A x \in RangeNumberSet : DecLE(sal_res.mn, x) /\ DecLE(x, sal_res.mx)
                 /\ sal_res.me = DecHalf(DecAdd(sal_res.mn, sal_res.mx))
    /\ (sal_pc = "done" /\ sal_cell = StrCell(Txt_40k_60k)) =>
          sal_res = Triple(DecInt(40000), DecInt(60000), DecInt(50000))

\* a range whose numbers are written largest first has been parsed
C4_Witness ==
    /\ sal_pc = "done"
    /\ SalPresent
    /\ HasRangeSep(StripBrackets(SalText))
    /\ Len(RangeNumbers) >= 2
    /\ ~DecLE(RangeNumbers[1], RangeNumbers[2])
    /\ sal_res.mn = RangeNumbers[2]

-----------------------------------------------------------------------------
(* salary_parser_int.py: clean_salary_columns_int *)

min_col == "min_amount"

max_col == "max_amount"

mean_col == "mean_salary"

\* df[name] = col
SetColumn(d, name, col) ==
    [c \in DOMAIN d \cup {name} |-> IF c = name THEN col ELSE d[c]]

\* df.drop(columns = names)
DropColumns(d, names) == [c \in DOMAIN d \ names |-> d[c]]

\* len(df)
NumRows(d) == IF DOMAIN d = {} THEN 0 ELSE Len(d[CHOOSE c \in DOMAIN d : TRUE])

\* [np.nan] * n
NaNList(n) == [i \in 1..n |-> NaN]

\* parse_salary_field of every cell of a column
ParsedRows(col_name) ==
    [i \in 1..NumRows(df) |-> parse_salary_field(df[col_name][i])]

\* a later column overwrites what an earlier column gave
Filled_Overwrite(parsed, f, rows) ==
    [i \in DOMAIN parsed |-> IF ~IsNaN(rows[i][f]) THEN rows[i][f] ELSE parsed[i]]

\* one of the three lists after the loop of _fill_from_column: field f of a
\* parsed cell is taken where it is defined and the list holds no value yet
Filled(parsed, f, rows) ==
    [i \in DOMAIN parsed |->
        IF ~IsNaN(rows[i][f]) /\ IsNaN(parsed[i]) THEN rows[i][f] ELSE parsed[i]]

FillRows(rows) ==
    /\ parsed_min' = Filled(parsed_min, "mn", rows)
    /\ parsed_max' = Filled(parsed_max, "mx", rows)
    /\ parsed_mean' = Filled(parsed_mean, "me", rows)

_fill_from_column(col_name) ==
    IF col_name \notin DOMAIN df THEN UNCHANGED parsed_vars
    ELSE \E rows \in {ParsedRows(col_name)} : FillRows(rows)

\* the column read at each position: mean_col first, then min_col and max_col
ColumnAt(p) ==
    IF p = "fill_mean" THEN mean_col ELSE IF p = "fill_min" THEN min_col ELSE max_col

AfterFill(p) ==
    IF p = "fill_mean" THEN "fill_min" ELSE IF p = "fill_min" THEN "fill_max"
    ELSE "last_pass"

FillFromColumn ==
    /\ pc \in {"fill_mean", "fill_min", "fill_max"}
    /\ _fill_from_column(ColumnAt(pc))
    /\ pc' = AfterFill(pc)
    /\ UNCHANGED <<df, run, first_df, param_vars, salary_vars, location_vars, title_vars>>

\* the last-pass loop, row i
LastPassMin(i) ==
    IF IsNaN(parsed_min[i]) /\ ~IsNaN(parsed_mean[i]) THEN parsed_mean[i] ELSE parsed_min[i]

LastPassMax(i) ==
    IF IsNaN(parsed_max[i]) /\ ~IsNaN(parsed_mean[i]) THEN parsed_mean[i] ELSE parsed_max[i]

LastPassMean(i) ==
    IF IsNaN(parsed_mean[i]) /\ ~IsNaN(LastPassMin(i)) /\ ~IsNaN(LastPassMax(i))
    THEN DecHalf(DecAdd(LastPassMin(i), LastPassMax(i)))
    ELSE parsed_mean[i]

LastPass ==
    /\ pc = "last_pass"
    /\ parsed_min' = [i \in DOMAIN parsed_min |-> LastPassMin(i)]
    /\ parsed_max' = [i \in DOMAIN parsed_max |-> LastPassMax(i)]
    /\ parsed_mean' = [i \in DOMAIN parsed_mean |-> LastPassMean(i)]
    /\ pc' = "back_fill"
    /\ UNCHANGED <<df, run, first_df, param_vars, salary_vars, location_vars, title_vars>>

\* the values of a column that are not NaN (skipna)
Known(col) == SelectSeq(col, LAMBDA x : ~IsNaN(x))

RECURSIVE Insert(_, _)
Insert(x, sorted) ==
    IF sorted = <<>> THEN <<x>>
    ELSE IF DecLE(x, Head(sorted)) THEN <<x>> \o sorted
    ELSE <<Head(sorted)>> \o Insert(x, Tail(sorted))

RECURSIVE Sorted(_)
Sorted(col) == IF col = <<>> THEN <<>> ELSE Insert(Head(col), Sorted(Tail(col)))

RECURSIVE Sum(_)
Sum(col) == IF col = <<>> THEN DecInt(0) ELSE DecAdd(Head(col), Sum(Tail(col)))

\* n / k rounded to the nearest integer (n >= 0, k > 0)
RoundDiv(n, k) == (2 * n + k) \div (2 * k)

\* d / k as a float: exact where the quotient has at most three decimals,
\* rounded to three decimals otherwise
DecDiv(d, k) ==
    LET e == MaxOf(d.e, 3)
        n == Scaled(d, e)
    IN Dec(IF n >= 0 THEN RoundDiv(n, k) ELSE 0 - RoundDiv(0 - n, k), e)

\* Series.median(skipna=True): NaN when no value is known
Median(col) ==
    LET s == Sorted(Known(col))
        n == Len(s)
    IN IF n = 0 THEN NaN
       ELSE IF n % 2 = 1 THEN s[(n + 1) \div 2]
       ELSE DecHalf(DecAdd(s[n \div 2], s[n \div 2 + 1]))

\* Series.mean(skipna=True): NaN when no value is known
Mean(col) ==
    IF Known(col) = <<>> THEN NaN ELSE DecDiv(Sum(Known(col)), Len(Known(col)))

\* every row replaced by the fill value, the known ones included
FillNa_All(col, value) == [i \in DOMAIN col |-> value]

\* Series.fillna(value): fillna(NaN) changes nothing
FillNa(col, value) == [i \in DOMAIN col |-> IF IsNaN(col[i]) THEN value ELSE col[i]]

\* the statistic that fills the gaps of a column, per fill_strategy
FillValue(col, median_here) ==
    IF fill_strategy = "median" THEN (IF median_here THEN Median(col) ELSE Mean(col))
    ELSE IF fill_strategy = "mean" THEN Mean(col)
    ELSE NaN

FloatColumn(col) == [i \in DOMAIN col |-> FloatCell(col[i])]

\* the temporary numeric columns, their gaps filled
BackFill ==
    /\ pc = "back_fill"
    /\ df' = SetColumn(SetColumn(SetColumn(df,
                "_min_salary_tmp",
                FloatColumn(FillNa(parsed_min, FillValue(parsed_min, TRUE)))),
                "_max_salary_tmp",
                FloatColumn(FillNa(parsed_max, FillValue(parsed_max, TRUE)))),
                "_mean_salary_tmp",
                FloatColumn(FillNa(parsed_mean, FillValue(parsed_mean, FALSE))))
    /\ pc' = "output"
    /\ UNCHANGED <<run, first_df, parsed_vars, param_vars, salary_vars, location_vars, title_vars>>

\* floor(d) of a float
Floor(d) == d.m \div Pow10(d.e)

\* Series.round(0): halves to the even neighbour
RoundHalfEven(d) ==
    LET p == Pow10(d.e)
        q == d.m \div p
        r == d.m % p
    IN IF 2 * r < p THEN q
       ELSE IF 2 * r > p THEN q + 1
       ELSE IF q % 2 = 0 THEN q ELSE q + 1

\* _to_int_series: the rounding chosen, then astype("Int64") (NaN becomes NA)
_to_int_series(col) ==
    [i \in DOMAIN col |->
        LET d == col[i].v
        IN IF IsNaN(d) THEN Int64Cell(NaN)
           ELSE IF round_method = "floor" THEN Int64Cell(DecInt(Floor(d)))
           ELSE IF round_method = "ceil"
                THEN Int64Cell(DecInt(IF d.m % Pow10(d.e) = 0 THEN Floor(d) ELSE Floor(d) + 1))
           ELSE Int64Cell(DecInt(RoundHalfEven(d)))]

\* the column written to the table: integers, or the floats as they are
OutputColumn(col) == IF enforce_int THEN _to_int_series(col) ELSE col

\* the names of the output columns
OutName(field) ==
    IF overwrite THEN field \o "_salary" ELSE field \o "_salary_clean"

TmpColumns == {"_min_salary_tmp", "_max_salary_tmp", "_mean_salary_tmp"}

WriteOutput ==
    /\ pc = "output"
    /\ df' = DropColumns(
                SetColumn(SetColumn(SetColumn(df,
                    OutName("min"), OutputColumn(df["_min_salary_tmp"])),
                    OutName("max"), OutputColumn(df["_max_salary_tmp"])),
                    OutName("mean"), OutputColumn(df["_mean_salary_tmp"])),
                TmpColumns)
    /\ pc' = "done"
    /\ UNCHANGED <<run, first_df, parsed_vars, param_vars, salary_vars, location_vars, title_vars>>

\* the caller runs the driver again on the table it returned
RunAgain ==
    /\ pc = "done"
    /\ run = 1
    /\ run' = 2
    /\ first_df' = df
    /\ parsed_min' = NaNList(NumRows(df))
    /\ parsed_max' = NaNList(NumRows(df))
    /\ parsed_mean' = NaNList(NumRows(df))
    /\ pc' = "fill_mean"
    /\ UNCHANGED <<df, param_vars, salary_vars, location_vars, title_vars>>

-----------------------------------------------------------------------------
(* The tables clean_salary_columns_int is applied to *)

MaxRows == 2

Txt_NA == <<"N", "A">>
Txt_50000 == <<"5", "0", "0", "0", "0">>
Txt_4_5 == <<"4", ".", "5">>

MinAmountCells == {StrCell(Txt_NA), StrCell(Txt_40k_60k)}

MaxAmountCells == {NoneCell, StrCell(Txt_4_5)}

MeanSalaryCells == {NoneCell, StrCell(Txt_50000)}

Columns(n, cells) == [1..n -> cells]

\* tables of at most MaxRows rows, with or without a raw mean_salary column
SalaryTables ==
    UNION {
        {[min_amount |-> a, max_amount |-> b, mean_salary |-> c] :
            a \in Columns(n, MinAmountCells), b \in Columns(n, MaxAmountCells),
            c \in Columns(n, MeanSalaryCells)}
        \cup
        {[min_amount |-> a, max_amount |-> b] :
            a \in Columns(n, MinAmountCells), b \in Columns(n, MaxAmountCells)}
        : n \in 0..MaxRows }

BatchInit ==
    /\ df \in SalaryTables
    /\ pc = "fill_mean"
    /\ run = 1
    /\ first_df = <<>>
    /\ parsed_min = NaNList(NumRows(df))
    /\ parsed_max = NaNList(NumRows(df))
    /\ parsed_mean = NaNList(NumRows(df))
    /\ overwrite \in BOOLEAN
    /\ fill_strategy \in {"median", "mean", "None"}
    /\ enforce_int \in BOOLEAN
    /\ round_method \in (IF enforce_int THEN {"round", "floor", "ceil"} ELSE {"round"})

BatchIdle ==
    /\ df = <<>>
    /\ pc = "idle"
    /\ run = 0
    /\ first_df = <<>>
    /\ parsed_min = <<>>
    /\ parsed_max = <<>>
    /\ parsed_mean = <<>>
    /\ overwrite = TRUE
    /\ fill_strategy = "median"
    /\ enforce_int = TRUE
    /\ round_method = "round"

SalaryIdle ==
    /\ sal_pc = "idle"
    /\ sal_cell = NoneCell
    /\ sal_res = NaNTriple

-----------------------------------------------------------------------------
(* Claims about clean_salary_columns_int *)

Rows == 1..NumRows(df)

\* the raw columns read so far at position p, in the order they were read
ColumnsRead(p) ==
    SelectSeq(IF p = "fill_min" THEN <<mean_col>>
              ELSE IF p = "fill_max" THEN <<mean_col, min_col>>
              ELSE <<mean_col, min_col, max_col>>,
              LAMBDA c : c \in DOMAIN df)

\* row i as parsed from each of the columns cols, in their order
ParsedFrom(cols, i) == [k \in DOMAIN cols |-> parse_salary_field(df[cols[k]][i])]

\* field f of each of the triples
Field(triples, f) == [k \in DOMAIN triples |-> triples[k][f]]

\* the three lists hold, at row i, the first defined value of each field
FirstWins(i, triples) ==
    /\ parsed_min[i] = FirstValid(Field(triples, "mn"))
    /\ parsed_max[i] = FirstValid(Field(triples, "mx"))
    /\ parsed_mean[i] = FirstValid(Field(triples, "me"))

\* C6: the raw columns are processed in the order mean_col, min_col, max_col,
\* and for every row and each of min, max, mean the value kept is the one from
\* the first column in that order whose cell parses to a defined value for the
\* field (undefined when there is none): a later column never overwrites it.
C6_FirstColumnWins ==
    pc \in {"fill_min", "fill_max", "last_pass"} =>
        \A i \in Rows : \E triples \in {ParsedFrom(ColumnsRead(pc), i)} : FirstWins(i, triples)

\* all three columns were read, and a row whose mean_col and min_col both parse,
\* to different minima, kept the one of mean_col
C6_Witness ==
    /\ pc = "last_pass"
    /\ mean_col \in DOMAIN df
    /\ \E i \in Rows :
           LET a == parse_salary_field(df[mean_col][i]).mn
               b == parse_salary_field(df[min_col][i]).mn
           IN ~IsNaN(a) /\ ~IsNaN(b) /\ a # b /\ parsed_min[i] = a

\* some raw column of row i parses to a number
SomeColumnParses(i) ==
    \E c \in {mean_col, min_col, max_col} \cap DOMAIN df :
        ~IsNaN(parse_salary_field(df[c][i]).mn)

\* C7: after the last-pass step, before any integer coercion, every row for
\* which some raw column parses to a number has min, max and mean all defined
\* with min <= mean <= max and mean = (min + max) / 2, and no row has some of
\* the three defined and others undefined.
C7_ReconciledConsistent ==
    pc = "back_fill" =>
        \A i \in Rows :
            /\ SomeColumnParses(i) =>
                   /\ ~IsNaN(parsed_min[i]) /\ ~IsNaN(parsed_max[i]) /\ ~IsNaN(parsed_mean[i])
                   /\ DecLE(parsed_min[i], parsed_mean[i])
                   /\ DecLE(parsed_mean[i], parsed_max[i])
                   /\ parsed_mean[i] = DecHalf(DecAdd(parsed_min[i], parsed_max[i]))
            /\ IsNaN(parsed_min[i]) = IsNaN(parsed_max[i])
            /\ IsNaN(parsed_min[i]) = IsNaN(parsed_mean[i])

\* the last pass ran over a table with a row that holds a proper range and a
\* row that holds nothing
C7_Witness ==
    /\ pc = "back_fill"
    /\ \E i \in Rows : SomeColumnParses(i) /\ parsed_min[i] # parsed_max[i]
    /\ \E i \in Rows : ~SomeColumnParses(i) /\ IsNaN(parsed_mean[i])

\* the three lists with the temporary column each one is written to
TmpOf == [min |-> "_min_salary_tmp", max |-> "_max_salary_tmp", mean |-> "_mean_salary_tmp"]

ParsedOf == [min |-> parsed_min, max |-> parsed_max, mean |-> parsed_mean]

\* C8: with a fill strategy ('median' or 'mean') no row is left with an
\* undefined min, max or mean unless the column had no known value before the
\* fill, and a row whose value was known keeps it unchanged by the fill.
C8_FillLeavesNoGap ==
    /\ (pc = "output" /\ fill_strategy \in {"median", "mean"}) =>
          \A f \in {"min", "max", "mean"} : \A i \in Rows :
              /\ (\E j \in Rows : ~IsNaN(ParsedOf[f][j])) => ~IsNaN(df[TmpOf[f]][i].v)
              /\ ~IsNaN(ParsedOf[f][i]) => df[TmpOf[f]][i].v = ParsedOf[f][i]
    /\ (pc = "done" /\ fill_strategy \in {"median", "mean"}) =>
          \A f \in {"min", "max", "mean"} : \A i \in Rows :
              (\E j \in Rows : ~IsNaN(ParsedOf[f][j])) => ~IsNa(df[OutName(f)][i])

\* a gap of the min column was filled with the median of its known values
C8_Witness ==
    /\ pc = "output"
    /\ fill_strategy = "median"
    /\ \E i, j \in Rows :
           /\ IsNaN(parsed_min[i])
           /\ ~IsNaN(parsed_min[j])
           /\ df["_min_salary_tmp"][i].v = Median(parsed_min)
           /\ df["_min_salary_tmp"][j].v = parsed_min[j]

\* the output columns of a table
OutputColumns(d) == [f \in {"min", "max", "mean"} |-> d[OutName(f)]]

\* C5 (clean_salary_columns_int): a second run, with the default column names,
\* overwrite=True and the same parameters, on the table the first run returned
\* yields output columns identical to those of the first run.
C5_SalaryIdempotent ==
    (pc = "done" /\ run = 2 /\ overwrite) => OutputColumns(df) = OutputColumns(first_df)

-----------------------------------------------------------------------------
(* location_cleaner.py: parse_location *)

COUNTRY_MAP ==
       <<"u", "s">> :> <<"U", "S">>
    @@ <<"u", "s", "a">> :> <<"U", "S">>
    @@ <<"u", "n", "i", "t", "e", "d", " ", "s", "t", "a", "t", "e", "s">> :> <<"U", "S">>
    @@ <<"u", "n", "i", "t", "e", "d", " ", "s", "t", "a", "t", "e", "s", " ", "o", "f", " ", "a", "m", "e", "r", "i", "c", "a">> :> <<"U", "S">>
    @@ <<"u", "k">> :> <<"U", "K">>
    @@ <<"g", "b">> :> <<"U", "K">>
    @@ <<"u", "n", "i", "t", "e", "d", " ", "k", "i", "n", "g", "d", "o", "m">> :> <<"U", "K">>
    @@ <<"e", "n", "g", "l", "a", "n", "d">> :> <<"U", "K">>
    @@ <<"c", "a", "n", "a", "d", "a">> :> <<"C", "A">>
    @@ <<"c", "a">> :> <<"C", "A">>
    @@ <<"a", "u", "s", "t", "r", "a", "l", "i", "a">> :> <<"A", "U">>
    @@ <<"a", "u">> :> <<"A", "U">>
    @@ <<"i", "n", "d", "i", "a">> :> <<"I", "N">>
    @@ <<"i", "n">> :> <<"I", "N">>

US_STATE_MAP ==
       <<"a", "l", "a", "b", "a", "m", "a">> :> <<"A", "L">>
    @@ <<"a", "l", "a", "s", "k", "a">> :> <<"A", "K">>
    @@ <<"a", "r", "i", "z", "o", "n", "a">> :> <<"A", "Z">>
    @@ <<"a", "r", "k", "a", "n", "s", "a", "s">> :> <<"A", "R">>
    @@ <<"c", "a", "l", "i", "f", "o", "r", "n", "i", "a">> :> <<"C", "A">>
    @@ <<"c", "o", "l", "o", "r", "a", "d", "o">> :> <<"C", "O">>
    @@ <<"c", "o", "n", "n", "e", "c", "t", "i", "c", "u", "t">> :> <<"C", "T">>
    @@ <<"d", "e", "l", "a", "w", "a", "r", "e">> :> <<"D", "E">>
    @@ <<"f", "l", "o", "r", "i", "d", "a">> :> <<"F", "L">>
    @@ <<"g", "e", "o", "r", "g", "i", "a">> :> <<"G", "A">>
    @@ <<"h", "a", "w", "a", "i", "i">> :> <<"H", "I">>
    @@ <<"i", "d", "a", "h", "o">> :> <<"I", "D">>
    @@ <<"i", "l", "l", "i", "n", "o", "i", "s">> :> <<"I", "L">>
    @@ <<"i", "n", "d", "i", "a", "n", "a">> :> <<"I", "N">>
    @@ <<"i", "o", "w", "a">> :> <<"I", "A">>
    @@ <<"k", "a", "n", "s", "a", "s">> :> <<"K", "S">>
    @@ <<"k", "e", "n", "t", "u", "c", "k", "y">> :> <<"K", "Y">>
    @@ <<"l", "o", "u", "i", "s", "i", "a", "n", "a">> :> <<"L", "A">>
    @@ <<"m", "a", "i", "n", "e">> :> <<"M", "E">>
    @@ <<"m", "a", "r", "y", "l", "a", "n", "d">> :> <<"M", "D">>
    @@ <<"m", "a", "s", "s", "a", "c", "h", "u", "s", "e", "t", "t", "s">> :> <<"M", "A">>
    @@ <<"m", "i", "c", "h", "i", "g", "a", "n">> :> <<"M", "I">>
    @@ <<"m", "i", "n", "n", "e", "s", "o", "t", "a">> :> <<"M", "N">>
    @@ <<"m", "i", "s", "s", "i", "s", "s", "i", "p", "p", "i">> :> <<"M", "S">>
    @@ <<"m", "i", "s", "s", "o", "u", "r", "i">> :> <<"M", "O">>
    @@ <<"m", "o", "n", "t", "a", "n", "a">> :> <<"M", "T">>
    @@ <<"n", "e", "b", "r", "a", "s", "k", "a">> :> <<"N", "E">>
    @@ <<"n", "e", "v", "a", "d", "a">> :> <<"N", "V">>
    @@ <<"n", "e", "w", " ", "h", "a", "m", "p", "s", "h", "i", "r", "e">> :> <<"N", "H">>
    @@ <<"n", "e", "w", " ", "j", "e", "r", "s", "e", "y">> :> <<"N", "J">>
    @@ <<"n", "e", "w", " ", "m", "e", "x", "i", "c", "o">> :> <<"N", "M">>
    @@ <<"n", "e", "w", " ", "y", "o", "r", "k">> :> <<"N", "Y">>
    @@ <<"n", "o", "r", "t", "h", " ", "c", "a", "r", "o", "l", "i", "n", "a">> :> <<"N", "C">>
    @@ <<"n", "o", "r", "t", "h", " ", "d", "a", "k", "o", "t", "a">> :> <<"N", "D">>
    @@ <<"o", "h", "i", "o">> :> <<"O", "H">>
    @@ <<"o", "k", "l", "a", "h", "o", "m", "a">> :> <<"O", "K">>
    @@ <<"o", "r", "e", "g", "o", "n">> :> <<"O", "R">>
    @@ <<"p", "e", "n", "n", "s", "y", "l", "v", "a", "n", "i", "a">> :> <<"P", "A">>
    @@ <<"r", "h", "o", "d", "e", " ", "i", "s", "l", "a", "n", "d">> :> <<"R", "I">>
    @@ <<"s", "o", "u", "t", "h", " ", "c", "a", "r", "o", "l", "i", "n", "a">> :> <<"S", "C">>
    @@ <<"s", "o", "u", "t", "h", " ", "d", "a", "k", "o", "t", "a">> :> <<"S", "D">>
    @@ <<"t", "e", "n", "n", "e", "s", "s", "e", "e">> :> <<"T", "N">>
    @@ <<"t", "e", "x", "a", "s">> :> <<"T", "X">>
    @@ <<"u", "t", "a", "h">> :> <<"U", "T">>
    @@ <<"v", "e", "r", "m", "o", "n", "t">> :> <<"V", "T">>
    @@ <<"v", "i", "r", "g", "i", "n", "i", "a">> :> <<"V", "A">>
    @@ <<"w", "a", "s", "h", "i", "n", "g", "t", "o", "n">> :> <<"W", "A">>
    @@ <<"w", "e", "s", "t", " ", "v", "i", "r", "g", "i", "n", "i", "a">> :> <<"W", "V">>
    @@ <<"w", "i", "s", "c", "o", "n", "s", "i", "n">> :> <<"W", "I">>
    @@ <<"w", "y", "o", "m", "i", "n", "g">> :> <<"W", "Y">>
    @@ <<"d", "i", "s", "t", "r", "i", "c", "t", " ", "o", "f", " ", "c", "o", "l", "u", "m", "b", "i", "a">> :> <<"D", "C">>
    @@ <<"w", "a", "s", "h", "i", "n", "g", "t", "o", "n", " ", "d", "c">> :> <<"D", "C">>
    @@ <<"d", "c">> :> <<"D", "C">>

_state_abbrev_set == {US_STATE_MAP[k] : k \in DOMAIN US_STATE_MAP}

\* an Optional[str]: None, or a text
Truthy(opt) == opt.k = "str" /\ opt.s # <<>>

\* str.isalpha
IsAlpha(s) == s # <<>> /\ \A i \in DOMAIN s : s[i] \in UpperChars \cup LowerChars

\* re.sub(r"[^\w\s]", "", t)
DropPunctuation(t) == SelectSeq(t, LAMBDA c : c \in WordChars \cup SpaceChars)

\* the result of _normalize_country for a token whose cleaned key is t
CountryOfKey(token, t) ==
    IF t = <<>> THEN NoneCell
    ELSE IF t \in DOMAIN COUNTRY_MAP THEN StrCell(COUNTRY_MAP[t])
    ELSE IF Len(t) = 2 /\ IsAlpha(t) THEN StrCell(Upper(t))
    ELSE IF Strip(token) # <<>> THEN StrCell(Upper(Strip(token)))
    ELSE NoneCell

_normalize_country(token) ==
    CountryOfKey(token, Strip(DropPunctuation(Lower(Strip(token)))))

\* the result of _normalize_state for a token stripped to t
StateOfStripped(t) ==
    IF t = <<>> THEN NoneCell
    ELSE IF Upper(t) \in _state_abbrev_set THEN StrCell(Upper(t))
    ELSE IF Lower(t) \in DOMAIN US_STATE_MAP THEN StrCell(US_STATE_MAP[Lower(t)])
    ELSE NoneCell

_normalize_state(token) == StateOfStripped(Strip(token))

SepChars == {",", "/", "|"}

\* re.split(r"[,/|]+", s): the pieces between the runs of separators
RECURSIVE Split(_, _, _)
Split(s, i, piece) ==
    IF i > Len(s) THEN <<piece>>
    ELSE IF s[i] \notin SepChars THEN Split(s, i + 1, Append(piece, s[i]))
    ELSE IF i > 1 /\ s[i - 1] \in SepChars THEN Split(s, i + 1, piece)
    ELSE <<piece>> \o Split(s, i + 1, <<>>)

\* [p.strip() for p in pieces if p and p.strip()]
RECURSIVE StripPieces(_)
StripPieces(pieces) ==
    IF pieces = <<>> THEN <<>>
    ELSE (IF Strip(Head(pieces)) = <<>> THEN <<>> ELSE <<Strip(Head(pieces))>>)
         \o StripPieces(Tail(pieces))

Txt_remote == <<"r", "e", "m", "o", "t", "e">>

EndsWith(s, w) == Len(w) <= Len(s) /\ SubSeq(s, Len(s) - Len(w) + 1, Len(s)) = w

\* p == "remote" or p.startswith("remote ") or p.endswith(" remote"), p lower-cased
IsRemoteToken(p) ==
    \/ p = Txt_remote
    \/ StartsWithAt(p, 1, Txt_remote \o <<" ">>)
    \/ EndsWith(p, <<" ">> \o Txt_remote)

AnyRemote(parts) == \E i \in DOMAIN parts : IsRemoteToken(Lower(parts[i]))

\* [p for p in parts if p.lower() != "remote"]
DropRemote(parts) == SelectSeq(parts, LAMBDA p : Lower(p) # Txt_remote)

\* ", ".join(parts)
RECURSIVE Join(_)
Join(parts) ==
    IF parts = <<>> THEN <<>>
    ELSE IF Len(parts) = 1 THEN parts[1]
    ELSE parts[1] \o <<",", " ">> \o Join(Tail(parts))

\* the record parse_location starts from; raised names the exception that
\* ended the call, "None" when the call returned
NewOut(cell) ==
    [city |-> NoneCell, state |-> NoneCell, country |-> NoneCell,
     is_remote |-> FALSE, raw |-> IF IsNa(cell) THEN NoneCell ELSE cell,
     raised |-> "None"]

\* the call ended by an exception: no record is returned
Raised(exception) ==
    [city |-> NoneCell, state |-> NoneCell, country |-> NoneCell,
     is_remote |-> FALSE, raw |-> NoneCell, raised |-> exception]

ButLast(parts) == SubSeq(parts, 1, Len(parts) - 1)

IsCountryToken(last_clean) ==
    last_clean \in DOMAIN COUNTRY_MAP \/ (Len(last_clean) = 2 /\ IsAlpha(last_clean))

\* "try last token as country": the record and the parts left
WithCountry(out, parts, last, country) ==
    IF /\ country # NoneCell
       /\ \/ Lower(Strip(last)) \in DOMAIN COUNTRY_MAP
          \/ Len(Strip(last)) = 2 /\ IsAlpha(Strip(last))
          \/ country.s # Upper(Strip(last))
    THEN [out |-> [out EXCEPT !.country = country], parts |-> ButLast(parts)]
    ELSE IF IsCountryToken(Lower(Strip(last)))
    THEN [out |-> [out EXCEPT !.country = _normalize_country(last)],
          parts |-> ButLast(parts)]
    ELSE [out |-> out, parts |-> parts]

\* "try second-last as state": the record and the parts left
WithState(out, parts, state_abbrev) ==
    IF Truthy(state_abbrev)
    THEN [out |-> [out EXCEPT !.state = state_abbrev], parts |-> ButLast(parts)]
    ELSE [out |-> out, parts |-> parts]

TryState(st) ==
    IF Len(st.parts) >= 1
    THEN WithState(st.out, st.parts, _normalize_state(st.parts[Len(st.parts)]))
    ELSE st

\* "treat the remainder as city"
WithCity(st) ==
    IF Len(st.parts) >= 1
    THEN [st.out EXCEPT !.city = StrCell(Strip(Join(st.parts)))]
    ELSE st.out

CityCountryNames ==
    { <<"U", "S">>, <<"U", "S", "A">>,
      <<"U", "N", "I", "T", "E", "D", " ", "S", "T", "A", "T", "E", "S">>,
      <<"U", "K">>,
      <<"U", "N", "I", "T", "E", "D", " ", "K", "I", "N", "G", "D", "O", "M">> }

\* "if city token is actually a country and country wasn't set"
CityAsCountry(out) ==
    IF /\ Truthy(out.city)
       /\ Upper(Strip(out.city.s)) \in CityCountryNames
       /\ ~Truthy(out.country)
    THEN [out EXCEPT !.country = _normalize_country(out.city.s)]
    ELSE out

\* the state tried before the country
ParseTail_StateFirst(out, parts) ==
    IF parts = <<>> THEN Raised("IndexError")
    ELSE LET st == TryState([out |-> out, parts |-> parts])
         IN  IF st.parts = <<>> THEN st.out
             ELSE CityAsCountry(WithCity(
                      WithCountry(st.out, st.parts, st.parts[Len(st.parts)],
                                  _normalize_country(st.parts[Len(st.parts)]))))

\* the tail of parse_location, from "last = parts[-1]"
ParseTail(out, parts) ==
    IF parts = <<>> THEN Raised("IndexError")
    ELSE CityAsCountry(WithCity(TryState(
             WithCountry(out, parts, parts[Len(parts)],
                         _normalize_country(parts[Len(parts)])))))

\* parse_location from the list of parts
ParseParts(out, parts) ==
    IF parts = <<>> THEN out
    ELSE IF AnyRemote(parts)
    THEN ParseTail([out EXCEPT !.is_remote = TRUE], DropRemote(parts))
    ELSE ParseTail(out, parts)

ParseStripped(out, s) ==
    IF s = <<>> THEN out ELSE ParseParts(out, StripPieces(Split(s, 1, <<>>)))

parse_location(cell) ==
    IF IsNa(cell) THEN NewOut(cell)
    ELSE ParseStripped(NewOut(cell), Strip(CellStr(cell)))

-----------------------------------------------------------------------------
(* The cells parse_location is applied to *)

MaxLocationAtoms == 3

LocationAtoms ==
    { <<"R", "e", "m", "o", "t", "e">>,
      <<"r", "e", "m", "o", "t", "e", " ", "w", "o", "r", "k">>,
      <<"N", "e", "w", " ", "Y", "o", "r", "k">>,
      <<"N", "Y">>,
      <<"U", "S">>,
      <<"U", ".", "S", ".">>,
      <<"C", "a", "n", "a", "d", "a">>,
      <<"G", "e", "o", "r", "g", "i", "a">>,
      <<"B", "e", "r", "l", "i", "n">>,
      <<",">>,
      <<"/">>,
      <<"|">>,
      <<" ">> }

\* the cells of the module's self-test
LocationSamples ==
    { <<"R", "e", "m", "o", "t", "e", ",", " ", "U", "S">>,
      <<"N", "e", "w", " ", "Y", "o", "r", "k", ",", " ", "N", "Y", ",", " ", "U", "S">>,
      <<"U", "S">>,
      <<"S", "e", "a", "t", "t", "l", "e", ",", " ", "W", "A", ",", " ", "U", "S">>,
      <<"W", "a", "s", "h", "i", "n", "g", "t", "o", "n", ",", " ", "D", "C", ",", " ", "U", "S">>,
      <<>>,
      <<"D", "e", "s", "e", "r", "t", " ", "R", "i", "d", "g", "e", ",", " ", "A", "Z", ",", " ", "U", "S", "A">>,
      <<"R", "o", "n", "k", "s", ",", " ", "P", "A", ",", " ", "U", "S">>,
      <<"M", "o", "o", "r", "e", ",", " ", "S", "C", ",", " ", "U", "S">> }

LocationCells ==
    {NoneCell, FloatCell(NaN)}
        \cup {StrCell(s) : s \in LocationSamples \cup AtomTexts(LocationAtoms, MaxLocationAtoms)}

EnrichIdle ==
    /\ loc_df = <<>>
    /\ enrich_pc = "idle"
    /\ loc_parsed = <<>>
    /\ fill_unknown = TRUE

LocationInit ==
    /\ loc_pc = "start"
    /\ loc_cell \in LocationCells
    /\ loc_out = NewOut(NoneCell)
    /\ EnrichIdle

ParseIdle ==
    /\ loc_pc = "idle"
    /\ loc_cell = NoneCell
    /\ loc_out = NewOut(NoneCell)

LocationIdle == ParseIdle /\ EnrichIdle

\* one call of parse_location
ParseLocation ==
    /\ loc_pc = "start"
    /\ loc_out' = parse_location(loc_cell)
    /\ loc_pc' = "done"
    /\ UNCHANGED <<loc_cell, enrich_vars, salary_vars, batch_vars, title_vars>>

-----------------------------------------------------------------------------
(* Claims about parse_location *)

\* the cell is missing, blank or made of separators and spaces only
NothingToInterpret(cell) ==
    IsNa(cell) \/ \A i \in DOMAIN CellStr(cell) : CellStr(cell)[i] \in SepChars \cup SpaceChars

AllEmpty(out) == out.city = NoneCell /\ out.state = NoneCell /\ out.country = NoneCell

\* C1: parse_location returns a record for every cell and never raises; a cell
\* with nothing to interpret yields a record whose city, state and country
\* are all empty.
C1_ParseLocationTotal ==
    loc_pc = "done" =>
        /\ loc_out.raised = "None"
        /\ NothingToInterpret(loc_cell) => AllEmpty(loc_out)

\* the tokens parse_location reads the country, the state and the city from
Tokens(cell) == DropRemote(StripPieces(Split(Strip(CellStr(cell)), 1, <<>>)))

\* the key a token is looked up with among the country synonyms
CountryKey(token) == Strip(DropPunctuation(Lower(token)))

LastIsCountry(tokens) ==
    tokens # <<>> /\ CountryKey(tokens[Len(tokens)]) \in DOMAIN COUNTRY_MAP

\* the record the tail rule gives for tokens that end with a country synonym
TailRule(tokens, rest) ==
    [country |-> StrCell(COUNTRY_MAP[CountryKey(tokens[Len(tokens)])]),
     state |-> IF rest = <<>> THEN NoneCell ELSE _normalize_state(rest[Len(rest)]),
     city |-> IF rest = <<>> THEN NoneCell
              ELSE IF _normalize_state(rest[Len(rest)]) # NoneCell
              THEN (IF Len(rest) = 1 THEN NoneCell ELSE StrCell(Join(ButLast(rest))))
              ELSE StrCell(Join(rest))]

Loc_NewYork_NY_US ==
    <<"N", "e", "w", " ", "Y", "o", "r", "k", ",", " ", "N", "Y", ",", " ", "U", "S">>

Loc_Remote_US == <<"R", "e", "m", "o", "t", "e", ",", " ", "U", "S">>

Loc_US == <<"U", "S">>

FollowsTailRule(out, rule) ==
    out.country = rule.country /\ out.state = rule.state /\ out.city = rule.city

\* C12: parse_location resolves the country before the state, and only from
\* the tail of the tokens: a last token that is a country synonym becomes the
\* country and is removed, then the new last token becomes the state when it
\* is a state abbreviation or a full state name and is removed, and the tokens
\* left, joined with ", ", are the city. "New York, NY, US" gives city
\* "New York", state "NY", country "US", not remote; "Remote, US" gives
\* country "US", remote, no city or state; "US" gives country "US" only.
C12_CountryThenStateFromTail ==
    (loc_pc = "done" /\ ~IsNa(loc_cell)) =>
        /\ \A tokens \in {Tokens(loc_cell)} :
               LastIsCountry(tokens) =>
                   /\ loc_out.raised = "None"
                   /\ FollowsTailRule(loc_out, TailRule(tokens, ButLast(tokens)))
        /\ loc_cell = StrCell(Loc_NewYork_NY_US) =>
               /\ loc_out.city = StrCell(<<"N", "e", "w", " ", "Y", "o", "r", "k">>)
               /\ loc_out.state = StrCell(<<"N", "Y">>)
               /\ loc_out.country = StrCell(<<"U", "S">>)
               /\ loc_out.is_remote = FALSE
        /\ loc_cell = StrCell(Loc_Remote_US) =>
               /\ AllEmpty([loc_out EXCEPT !.country = NoneCell])
               /\ loc_out.country = StrCell(<<"U", "S">>)
               /\ loc_out.is_remote = TRUE
        /\ loc_cell = StrCell(Loc_US) =>
               /\ AllEmpty([loc_out EXCEPT !.country = NoneCell])
               /\ loc_out.country = StrCell(<<"U", "S">>)
               /\ loc_out.is_remote = FALSE

\* a parsed cell of three tokens: a city, a state and a country synonym
C12_Witness ==
    /\ loc_pc = "done"
    /\ loc_cell = StrCell(Loc_NewYork_NY_US)
    /\ LastIsCountry(Tokens(loc_cell))
    /\ loc_out.state = StrCell(<<"N", "Y">>)
    /\ loc_out.city = StrCell(<<"N", "e", "w", " ", "Y", "o", "r", "k">>)

\* the record after the country, the state and the city are read from the
\* tail, before the city is looked at as a country
TailExtraction(out, parts) ==
    WithCity(TryState(WithCountry(out, parts, parts[Len(parts)],
                                  _normalize_country(parts[Len(parts)]))))

\* the city read from the tail is a country synonym and no country was read
CityIsCountry(before) ==
    /\ Truthy(before.city)
    /\ CountryKey(before.city.s) \in DOMAIN COUNTRY_MAP
    /\ ~Truthy(before.country)

\* C13: when the city derived from the tail equals a known country synonym and
\* the country is still empty (a country name followed by a full state name),
\* the country is re-derived from that text and the text is not kept as city:
\* the returned record has the country set and the city empty.
C13_CityMovedToCountry ==
    (loc_pc = "done" /\ ~IsNa(loc_cell) /\ loc_out.raised = "None") =>
        \A tokens \in {Tokens(loc_cell)} :
            (tokens # <<>> /\ CityIsCountry(TailExtraction(NewOut(loc_cell), tokens))) =>
                /\ Truthy(loc_out.country)
                /\ loc_out.city = NoneCell

\* the tokens of a text of the record, none when the field is empty
TokensOf(opt) ==
    IF Truthy(opt) THEN StripPieces(Split(Strip(opt.s), 1, <<>>)) ELSE <<>>

\* C14: is_remote is true exactly when some token of the cell is 'remote',
\* starts with 'remote ' or ends with ' remote' (case-insensitive); and
\* whenever is_remote is true, no such token remains in the city or the state.
C14_RemoteStripped ==
    (loc_pc = "done" /\ ~IsNa(loc_cell) /\ loc_out.raised = "None") =>
        /\ loc_out.is_remote = AnyRemote(TokensOf(StrCell(CellStr(loc_cell))))
        /\ loc_out.is_remote =>
               /\ ~AnyRemote(TokensOf(loc_out.city))
               /\ ~AnyRemote(TokensOf(loc_out.state))

-----------------------------------------------------------------------------
(* location_cleaner.py: enrich_locations *)

loc_col == "location"

\* the placeholder of a missing city or state, and of a missing title
Txt_Unknown == <<"U", "n", "k", "n", "o", "w", "n">>

\* a cell of a boolean column
BoolCell(b) == [k |-> IF b THEN "True" ELSE "False", s |-> <<>>, v |-> NaN]

\* df[loc_col].apply(parse_location)
Applied(col) == [i \in DOMAIN col |-> parse_location(col[i])]

\* the first line of enrich_locations: parse_location of every row; the
\* exception of a row ends the call before any column is written
ApplyParse ==
    /\ enrich_pc = "apply"
    /\ \E recs \in {Applied(loc_df[loc_col])} :
           IF \E i \in DOMAIN recs : recs[i].raised # "None"
           THEN enrich_pc' = "raised" /\ loc_parsed' = <<>>
           ELSE enrich_pc' = "assign" /\ loc_parsed' = recs
    /\ UNCHANGED <<loc_df, fill_unknown, loc_pc, loc_cell, loc_out,
                   salary_vars, batch_vars, title_vars>>

\* parsed[field]
ParsedColumn(field) == [i \in DOMAIN loc_parsed |-> loc_parsed[i][field]]

\* parsed["raw"].isna() | (parsed["raw"].astype(str).str.strip() == "")
MissingColumn ==
    [i \in DOMAIN loc_parsed |->
        BoolCell(IsNa(loc_parsed[i].raw) \/ Strip(CellStr(loc_parsed[i].raw)) = <<>>)]

\* Series.fillna(text) of a column of optional texts
FillNaText(col, text) == [i \in DOMAIN col |-> IF IsNa(col[i]) THEN StrCell(text) ELSE col[i]]

\* the city or state column written: its nulls replaced when fill_unknown
FilledColumn(col) == IF fill_unknown THEN FillNaText(col, Txt_Unknown) ELSE col

\* location_missing, the parsed columns, and the fill of city and state
AssignColumns ==
    /\ enrich_pc = "assign"
    /\ loc_df' = SetColumn(SetColumn(SetColumn(SetColumn(SetColumn(loc_df,
                    "location_missing", MissingColumn),
                    "location_city", FilledColumn(ParsedColumn("city"))),
                    "location_state", FilledColumn(ParsedColumn("state"))),
                    "location_country", ParsedColumn("country")),
                    "is_remote",
                    [i \in DOMAIN loc_parsed |-> BoolCell(loc_parsed[i].is_remote)])
    /\ enrich_pc' = "display"
    /\ UNCHANGED <<loc_parsed, fill_unknown, loc_pc, loc_cell, loc_out,
                   salary_vars, batch_vars, title_vars>>

Txt_Remote == <<"R", "e", "m", "o", "t", "e">>

Txt_nan == <<"n", "a", "n">>

\* col.where(col.notna() & (col != "Unknown"), ""), one cell
PartOf(cell) == IF ~IsNa(cell) /\ cell.s # Txt_Unknown THEN cell.s ELSE <<>>

\* city_part.astype(str).replace("nan", "")
\*     + (", " + state_part.astype(str)).where(state_part != "", "")
CityState(city_part, state_part) ==
    (IF city_part = Txt_nan THEN <<>> ELSE city_part)
        \o (IF state_part # <<>> THEN <<",", " ">> \o state_part ELSE <<>>)

\* is_remote.map({True: "Remote"}).fillna(city and state)
FirstDisplay(is_remote, city_state) ==
    IF is_remote = BoolCell(TRUE) THEN Txt_Remote ELSE city_state

\* the fallback: an empty display takes the country, "Unknown" without one;
\* then replace("", "Unknown")
WithFallback(display, country) ==
    IF Strip(display) = <<>>
    THEN (IF IsNa(country) THEN Txt_Unknown
          ELSE IF country.s = <<>> THEN Txt_Unknown ELSE country.s)
    ELSE display

\* location_display of row i of the table d
DisplayOf(d, i) ==
    WithFallback(FirstDisplay(d["is_remote"][i],
                              CityState(PartOf(d["location_city"][i]),
                                        PartOf(d["location_state"][i]))),
                 d["location_country"][i])

\* location_display; the conversion to categories changes no value
BuildDisplay ==
    /\ enrich_pc = "display"
    /\ loc_df' = SetColumn(loc_df, "location_display",
                    [i \in DOMAIN loc_parsed |-> StrCell(DisplayOf(loc_df, i))])
    /\ enrich_pc' = "done"
    /\ UNCHANGED <<loc_parsed, fill_unknown, loc_pc, loc_cell, loc_out,
                   salary_vars, batch_vars, title_vars>>

-----------------------------------------------------------------------------
(* The tables enrich_locations is applied to *)

MaxLocationRows == 2

LocationRowCells ==
    { NoneCell,
      StrCell(<<>>),
      StrCell(<<"R", "e", "m", "o", "t", "e", ",", " ", "U", "S">>),
      StrCell(<<"N", "e", "w", " ", "Y", "o", "r", "k", ",", " ", "N", "Y", ",", " ", "U", "S">>),
      StrCell(<<"U", "S">>),
      StrCell(<<"N", "Y", ",", " ", "U", "S">>),
      StrCell(<<"S", "e", "a", "t", "t", "l", "e">>),
      StrCell(<<"R", "e", "m", "o", "t", "e">>) }

\* tables of one to MaxLocationRows rows with a raw location column
LocationTables ==
    UNION {{[location |-> col] : col \in [1..n -> LocationRowCells]} : n \in 1..MaxLocationRows}

EnrichInit ==
    /\ loc_df \in LocationTables
    /\ enrich_pc = "apply"
    /\ loc_parsed = <<>>
    /\ fill_unknown \in BOOLEAN

-----------------------------------------------------------------------------
(* Claims about enrich_locations *)

\* the city or state of a row is a value, not missing and not the placeholder
HasValue(cell) == ~IsNa(cell) /\ cell.s # Txt_Unknown

\* the display the rule gives row i of the enriched table d
RuleDisplay(d, i) ==
    LET city == d["location_city"][i]
        state == d["location_state"][i]
        country == d["location_country"][i]
    IN IF d["is_remote"][i] = BoolCell(TRUE) THEN Txt_Remote
       ELSE IF HasValue(city) /\ HasValue(state) THEN city.s \o <<",", " ">> \o state.s
       ELSE IF HasValue(city) THEN city.s
       ELSE IF HasValue(state) THEN state.s
       ELSE IF ~IsNa(country) THEN country.s
       ELSE Txt_Unknown

\* C11: every row of the enriched table has a location_display, never null:
\* "Remote" if is_remote; otherwise "city, state" built from the city and state
\* that are values, the missing side and the ", " omitted when only one is (a
\* row with a state but no city displays just the state); otherwise the
\* country code; otherwise "Unknown".
C11_DisplayRule ==
    enrich_pc = "done" =>
        \A i \in DOMAIN loc_df["location_display"] :
            /\ ~IsNa(loc_df["location_display"][i])
            /\ loc_df["location_display"][i] = StrCell(RuleDisplay(loc_df, i))

-----------------------------------------------------------------------------
(* title_cleaner.py: classify_title *)

\* a pattern \b...\b is the set of the lower-case texts it matches between two
\* word boundaries; front[- ]?end matches three texts
DATA_PATTERNS ==
    << {<<"d", "a", "t", "a", " ", "s", "c", "i", "e", "n", "t", "i", "s", "t">>},
       {<<"d", "a", "t", "a", " ", "s", "c", "i", "e", "n", "c", "e">>},
       {<<"m", "a", "c", "h", "i", "n", "e", " ", "l", "e", "a", "r", "n", "i", "n", "g">>},
       {<<"m", "l", " ", "e", "n", "g", "i", "n", "e", "e", "r">>},
       {<<"m", "l">>},
       {<<"d", "e", "e", "p", " ", "l", "e", "a", "r", "n", "i", "n", "g">>},
       {<<"c", "o", "m", "p", "u", "t", "e", "r", " ", "v", "i", "s", "i", "o", "n">>},
       {<<"n", "l", "p">>},
       {<<"n", "a", "t", "u", "r", "a", "l", " ", "l", "a", "n", "g", "u", "a", "g", "e">>},
       {<<"p", "y", "t", "o", "r", "c", "h">>},
       {<<"t", "e", "n", "s", "o", "r", "f", "l", "o", "w">>},
       {<<"s", "c", "i", "k", "i", "t">>},
       {<<"p", "y", "s", "p", "a", "r", "k">>},
       {<<"s", "p", "a", "r", "k">>},
       {<<"d", "a", "t", "a", " ", "e", "n", "g", "i", "n", "e", "e", "r">>},
       {<<"d", "a", "t", "a", " ", "a", "n", "a", "l", "y", "s", "t">>},
       {<<"s", "t", "a", "t", "i", "s", "t", "i", "c", "i", "a", "n">>},
       {<<"r", "e", "s", "e", "a", "r", "c", "h", " ", "s", "c", "i", "e", "n", "t", "i", "s", "t">>} >>

SOFTWARE_PATTERNS ==
    << {<<"s", "o", "f", "t", "w", "a", "r", "e", " ", "e", "n", "g", "i", "n", "e", "e", "r">>},
       {<<"s", "o", "f", "t", "w", "a", "r", "e", " ", "d", "e", "v", "e", "l", "o", "p", "e", "r">>},
       {<<"d", "e", "v", "o", "p", "s">>},
       {<<"s", "r", "e">>},
       {<<"s", "i", "t", "e", " ", "r", "e", "l", "i", "a", "b", "i", "l", "i", "t", "y">>},
       {<<"b", "a", "c", "k", "e", "n", "d">>},
       {<<"f", "r", "o", "n", "t", "e", "n", "d">>, <<"f", "r", "o", "n", "t", "-", "e", "n", "d">>, <<"f", "r", "o", "n", "t", " ", "e", "n", "d">>},
       {<<"f", "u", "l", "l", "s", "t", "a", "c", "k">>, <<"f", "u", "l", "l", "-", "s", "t", "a", "c", "k">>, <<"f", "u", "l", "l", " ", "s", "t", "a", "c", "k">>},
       {<<"m", "o", "b", "i", "l", "e", " ", "e", "n", "g", "i", "n", "e", "e", "r">>},
       {<<"p", "l", "a", "t", "f", "o", "r", "m", " ", "e", "n", "g", "i", "n", "e", "e", "r">>},
       {<<"a", "p", "p", "l", "i", "c", "a", "t", "i", "o", "n", " ", "e", "n", "g", "i", "n", "e", "e", "r">>},
       {<<"e", "n", "g", "i", "n", "e", "e", "r">>},
       {<<"p", "r", "o", "g", "r", "a", "m", "m", "e", "r">>},
       {<<"d", "e", "v", "e", "l", "o", "p", "e", "r">>},
       {<<"b", "a", "c", "k", "e", "n", "d">>},
       {<<"f", "r", "o", "n", "t", "e", "n", "d">>} >>

\* re.compile(p, flags=re.I).search(t)
Search(pattern, t) ==
    \E w \in pattern : \E i \in 1..Len(t) :
        /\ StartsWithAt(t, i, w)
        /\ WordBoundary(t, i)
        /\ WordBoundary(t, i + Len(w))

\* some pattern of the list matches t
AnySearch(patterns, t) == \E n \in DOMAIN patterns : Search(patterns[n], t)

Txt_Other == <<"O", "t", "h", "e", "r">>

Txt_DataScientist == <<"D", "a", "t", "a", " ", "S", "c", "i", "e", "n", "t", "i", "s", "t">>

Txt_SoftwareEngineer ==
    <<"S", "o", "f", "t", "w", "a", "r", "e", " ", "E", "n", "g", "i", "n", "e", "e", "r">>

\* the software patterns checked before the data patterns
ClassifyStripped_SoftwareFirst(t, data_res, sw_res, coerce) ==
    IF t = <<>> THEN Txt_Unknown
    ELSE IF AnySearch(sw_res, t) THEN Txt_SoftwareEngineer
    ELSE IF AnySearch(data_res, t) THEN Txt_DataScientist
    ELSE IF coerce THEN Txt_SoftwareEngineer
    ELSE Txt_Other

\* a blank title classified like a present one
ClassifyStripped_BlankIsPresent(t, data_res, sw_res, coerce) ==
    IF AnySearch(data_res, t) THEN Txt_DataScientist
    ELSE IF AnySearch(sw_res, t) THEN Txt_SoftwareEngineer
    ELSE IF coerce THEN Txt_SoftwareEngineer
    ELSE Txt_Other

\* classify_title from the stripped text of a present title
ClassifyStripped(t, data_res, sw_res, coerce) ==
    IF t = <<>> THEN Txt_Unknown
    ELSE IF AnySearch(data_res, t) THEN Txt_DataScientist
    ELSE IF AnySearch(sw_res, t) THEN Txt_SoftwareEngineer
    ELSE IF coerce THEN Txt_SoftwareEngineer
    ELSE Txt_Other

classify_title(title, coerce) ==
    IF IsNa(title) THEN Txt_Unknown
    ELSE ClassifyStripped(Strip(CellStr(title)), DATA_PATTERNS, SOFTWARE_PATTERNS, coerce)

-----------------------------------------------------------------------------
(* The cells classify_title is applied to *)

MaxTitleAtoms == 3

TitleAtoms ==
    { <<"S", "e", "n", "i", "o", "r">>,
      <<"D", "a", "t", "a">>,
      <<"d", "a", "t", "a", " ", "e", "n", "g", "i", "n", "e", "e", "r">>,
      <<"E", "n", "g", "i", "n", "e", "e", "r">>,
      <<"M", "L">>,
      <<"B", "a", "r", "i", "s", "t", "a">>,
      <<"f", "r", "o", "n", "t">>,
      <<"e", "n", "d">>,
      <<"-">>,
      <<" ">>,
      <<"s">>,
      <<"_">> }

TitleSamples ==
    { <<"S", "e", "n", "i", "o", "r", " ", "D", "a", "t", "a", " ", "E", "n", "g", "i", "n", "e", "e", "r">>,
      <<"B", "a", "r", "i", "s", "t", "a">>,
      <<>>,
      <<"U", "n", "k", "n", "o", "w", "n">>,
      <<"S", "o", "f", "t", "w", "a", "r", "e", " ", "E", "n", "g", "i", "n", "e", "e", "r">>,
      <<"F", "u", "l", "l", " ", "S", "t", "a", "c", "k", " ", "D", "e", "v", "e", "l", "o", "p", "e", "r">>,
      <<"M", "a", "c", "h", "i", "n", "e", " ", "L", "e", "a", "r", "n", "i", "n", "g", " ", "E", "n", "g", "i", "n", "e", "e", "r">>,
      <<"F", "r", "o", "n", "t", "e", "n", "d", " ", "D", "e", "v", "e", "l", "o", "p", "e", "r">>,
      <<"D", "a", "t", "a", " ", "A", "n", "a", "l", "y", "s", "t">>,
      <<"h", "t", "m", "l", " ", "p", "r", "o", "g", "r", "a", "m", "m", "e", "r">> }

TitleCells ==
    {NoneCell, FloatCell(NaN), StrCell(<<"NBSP">>)}
        \cup {StrCell(s) : s \in TitleSamples \cup AtomTexts(TitleAtoms, MaxTitleAtoms)}

TitlesIdle ==
    /\ titles_df = <<>>
    /\ titles_pc = "idle"
    /\ keep_top_n_other = 0
    /\ top_other_set = {}

TitleInit ==
    /\ title_pc = "start"
    /\ title_cell \in TitleCells
    /\ coerce_other_to_sw \in BOOLEAN
    /\ title_label = <<>>
    /\ TitlesIdle

ClassifyIdle ==
    /\ title_pc = "idle"
    /\ title_cell = NoneCell
    /\ title_label = <<>>

TitleIdle ==
    /\ ClassifyIdle
    /\ coerce_other_to_sw = TRUE
    /\ TitlesIdle

\* one call of classify_title
ClassifyTitle ==
    /\ title_pc = "start"
    /\ title_label' = classify_title(title_cell, coerce_other_to_sw)
    /\ title_pc' = "done"
    /\ UNCHANGED <<title_cell, coerce_other_to_sw, titles_vars,
                   salary_vars, batch_vars, location_vars>>

-----------------------------------------------------------------------------
(* Claims about classify_title *)

\* the title is missing or blank
TitleMissing == IsNa(title_cell) \/ Strip(CellStr(title_cell)) = <<>>

TitleText == Strip(CellStr(title_cell))

DataMatches == AnySearch(DATA_PATTERNS, TitleText)

SoftwareMatches == AnySearch(SOFTWARE_PATTERNS, TitleText)

\* C9: the data patterns are checked before the software patterns: a non-blank
\* title in which a data pattern matches is labelled "Data Scientist" even
\* when a software pattern matches too, and a title is labelled "Software
\* Engineer" by a pattern match only when no data pattern matches.
C9_DataBeforeSoftware ==
    (title_pc = "done" /\ ~TitleMissing) =>
        /\ DataMatches => title_label = Txt_DataScientist
        /\ (title_label = Txt_SoftwareEngineer /\ SoftwareMatches) => ~DataMatches

\* "Senior Data Engineer", where both lists match, was labelled "Data Scientist"
C9_Witness ==
    /\ title_pc = "done"
    /\ title_cell = StrCell(<<"S", "e", "n", "i", "o", "r", " ", "D", "a", "t", "a", " ",
                              "E", "n", "g", "i", "n", "e", "e", "r">>)
    /\ DataMatches
    /\ SoftwareMatches
    /\ title_label = Txt_DataScientist

\* C10: the label is "Unknown" if and only if the title is missing or blank;
\* a present title is labelled "Data Scientist", "Software Engineer" or
\* "Other", and a present title matching neither list is labelled "Software
\* Engineer" when coerce_other_to_sw is true and "Other" when it is false.
C10_UnknownIffMissing ==
    title_pc = "done" =>
        /\ title_label = Txt_Unknown <=> TitleMissing
        /\ ~TitleMissing =>
               title_label \in {Txt_DataScientist, Txt_SoftwareEngineer, Txt_Other}
        /\ (~TitleMissing /\ ~DataMatches /\ ~SoftwareMatches) =>
               title_label = IF coerce_other_to_sw THEN Txt_SoftwareEngineer ELSE Txt_Other

\* a title made of spaces only was labelled "Unknown"
C10_Witness ==
    /\ title_pc = "done"
    /\ title_cell.k = "str"
    /\ title_cell.s # <<>>
    /\ TitleMissing
    /\ title_label = Txt_Unknown

-----------------------------------------------------------------------------
(* title_cleaner.py: clean_job_titles *)

title_col == "title"

out_col == "title_clean"

Txt_None == <<"N", "o", "n", "e">>

\* one cell of df[title_col].astype(str).str.strip().replace({"nan": None}):
\* a missing float reads "nan" and is dropped; None reads "None", or stays
\* missing where the column's type keeps its missing values (none_counted)
CountedText(cell, none_counted) ==
    IF cell.k = "None"
    THEN (IF none_counted THEN StrCell(Txt_None) ELSE NoneCell)
    ELSE IF IsNa(cell) THEN NoneCell
    ELSE IF Strip(CellStr(cell)) = Txt_nan THEN NoneCell
    ELSE StrCell(Strip(CellStr(cell)))

Counted(col, none_counted) == [i \in DOMAIN col |-> CountedText(col[i], none_counted)]

\* the index of value_counts(dropna=True): the distinct texts counted
CountIndex(texts) == {texts[i] : i \in DOMAIN texts} \ {NoneCell}

\* value_counts: the number of rows holding the text
ValueCount(texts, x) == Cardinality({i \in DOMAIN texts : texts[i] = x})

\* value_counts(dropna=True).head(n): n texts of the index (all of them when
\* there are fewer) with no text left out more frequent than one taken; the
\* order of texts of equal count is not specified
Heads(texts, index, n) ==
    {top \in SUBSET index :
        /\ Cardinality(top) = IF Cardinality(index) < n THEN Cardinality(index) ELSE n
        /\ \A x \in top : \A y \in index \ top :
               ValueCount(texts, x) >= ValueCount(texts, y)}

\* set([str(x) for x in top.index if x and x.strip()])
TopOtherSet(top) == {x.s : x \in {y \in top : Strip(y.s) # <<>>}}

\* "if keep_top_n_other and not coerce_other_to_sw"
KeepsTop == keep_top_n_other > 0 /\ ~coerce_other_to_sw

\* the first step of clean_job_titles: top_other_set
ComputeTopOther ==
    /\ titles_pc = "top"
    /\ IF KeepsTop
       THEN \E none_counted \in BOOLEAN :
                \E texts \in {Counted(titles_df[title_col], none_counted)} :
                    \E top \in Heads(texts, CountIndex(texts), keep_top_n_other) :
                        top_other_set' = TopOtherSet(top)
       ELSE top_other_set' = {}
    /\ titles_pc' = "map"
    /\ UNCHANGED <<titles_df, keep_top_n_other, title_pc, title_cell, title_label,
                   coerce_other_to_sw, salary_vars, batch_vars, location_vars>>

\* _map_title(x): a title of top_other_set is returned stripped, before any
\* pattern is looked at; every other title is classified
_map_title(x) ==
    IF KeepsTop /\ Truthy(x) /\ Strip(CellStr(x)) \in top_other_set
    THEN Strip(CellStr(x))
    ELSE classify_title(x, coerce_other_to_sw)

\* df[out_col] = df[title_col].apply(_map_title); the conversion to
\* categories changes no value
MapTitles ==
    /\ titles_pc = "map"
    /\ titles_df' = SetColumn(titles_df, out_col,
                       [i \in DOMAIN titles_df[title_col] |->
                           StrCell(_map_title(titles_df[title_col][i]))])
    /\ titles_pc' = "done"
    /\ UNCHANGED <<keep_top_n_other, top_other_set, title_pc, title_cell, title_label,
                   coerce_other_to_sw, salary_vars, batch_vars, location_vars>>

-----------------------------------------------------------------------------
(* The tables clean_job_titles is applied to *)

MaxTitleRows == 2

TitleRowCells ==
    { NoneCell,
      StrCell(<<>>),
      StrCell(<<"B", "a", "r", "i", "s", "t", "a">>),
      StrCell(<<"W", "a", "i", "t", "e", "r">>),
      StrCell(<<"D", "a", "t", "a", " ", "A", "n", "a", "l", "y", "s", "t">>),
      StrCell(<<"E", "n", "g", "i", "n", "e", "e", "r">>) }

\* tables of one to MaxTitleRows rows with a raw title column
TitleTables ==
    UNION {{[title |-> col] : col \in [1..n -> TitleRowCells]} : n \in 1..MaxTitleRows}

TitlesInit ==
    /\ titles_df \in TitleTables
    /\ titles_pc = "top"
    /\ keep_top_n_other \in 0..MaxTitleRows
    /\ coerce_other_to_sw \in BOOLEAN
    /\ top_other_set = {}

-----------------------------------------------------------------------------
(* Claims about clean_job_titles *)

\* the stripped text of the raw title of row i
RawTitle(i) == Strip(CellStr(titles_df[title_col][i]))

\* the rows whose title is present and not blank
PresentRows ==
    {i \in DOMAIN titles_df[title_col] :
        ~IsNa(titles_df[title_col][i]) /\ RawTitle(i) # <<>>}

Unmatched(t) == ~AnySearch(DATA_PATTERNS, t) /\ ~AnySearch(SOFTWARE_PATTERNS, t)

\* the unmatched population and the frequency of a title in it
UnmatchedRows == {i \in PresentRows : Unmatched(RawTitle(i))}

UnmatchedTitles == {RawTitle(i) : i \in UnmatchedRows}

Frequency(t) == Cardinality({i \in UnmatchedRows : RawTitle(i) = t})

\* fewer than n other unmatched titles are as frequent as t: t is among the n
\* most frequent however equal counts are ordered
SurelyTop(t, n) ==
    Cardinality({u \in UnmatchedTitles \ {t} : Frequency(u) >= Frequency(t)}) < n

\* n unmatched titles are more frequent than t
SurelyNotTop(t, n) ==
    Cardinality({u \in UnmatchedTitles : Frequency(u) > Frequency(t)}) >= n

\* C15: with coerce_other_to_sw false and keep_top_n_other = N, the titles
\* kept verbatim are the N most frequent of the titles that match neither
\* pattern list, the frequency counted over the unmatched titles only; a title
\* that matches a data or software pattern is never kept verbatim and gets
\* its category label; every other unmatched title becomes "Other".
C15_TopUnmatchedKept ==
    (titles_pc = "done" /\ KeepsTop) =>
        \A i \in PresentRows : \A t \in {RawTitle(i)} :
            \A clean \in {titles_df[out_col][i].s} :
                /\ AnySearch(DATA_PATTERNS, t) => clean = Txt_DataScientist
                /\ (~AnySearch(DATA_PATTERNS, t) /\ AnySearch(SOFTWARE_PATTERNS, t)) =>
                       clean = Txt_SoftwareEngineer
                /\ Unmatched(t) =>
                       /\ clean \in {t, Txt_Other}
                       /\ SurelyTop(t, keep_top_n_other) => clean = t
                       /\ SurelyNotTop(t, keep_top_n_other) => clean = Txt_Other

-----------------------------------------------------------------------------
(* Specifications *)

\* parse_salary_field applied to one cell
InitSalary == SalaryInit /\ BatchIdle /\ LocationIdle /\ TitleIdle

NextSalary == ParseSalaryField

SpecSalary == InitSalary /\ [][NextSalary]_vars

\* clean_salary_columns_int applied to a table, and again to the table returned
InitBatch == SalaryIdle /\ BatchInit /\ LocationIdle /\ TitleIdle

NextBatch ==
    \/ FillFromColumn
    \/ LastPass
    \/ BackFill
    \/ WriteOutput
    \/ RunAgain

SpecBatch == InitBatch /\ [][NextBatch]_vars

\* parse_location applied to one cell
InitLocation == SalaryIdle /\ BatchIdle /\ LocationInit /\ TitleIdle

NextLocation == ParseLocation

SpecLocation == InitLocation /\ [][NextLocation]_vars

\* classify_title applied to one title
InitTitle == SalaryIdle /\ BatchIdle /\ LocationIdle /\ TitleInit

NextTitle == ClassifyTitle

SpecTitle == InitTitle /\ [][NextTitle]_vars

\* enrich_locations applied to a table
InitEnrich == SalaryIdle /\ BatchIdle /\ ParseIdle /\ EnrichInit /\ TitleIdle

NextEnrich ==
    \/ ApplyParse
    \/ AssignColumns
    \/ BuildDisplay

SpecEnrich == InitEnrich /\ [][NextEnrich]_vars

\* clean_job_titles applied to a table
InitTitles == SalaryIdle /\ BatchIdle /\ LocationIdle /\ ClassifyIdle /\ TitlesInit

NextTitles == ComputeTopOther \/ MapTitles

SpecTitles == InitTitles /\ [][NextTitles]_vars

====
